---- MODULE Spec2Model ----
(***************************************************************************)
(* Model of server/utils/intelligent-slice-selector.py: the stdin/stdout   *)
(* entry point main and select_representative_slices (five-region quota    *)
(* selection of CT slices).                                                *)
(*                                                                         *)
(* A slice of the input series is represented by what the numeric code     *)
(* does with it (its "outcome"): whether pydicom can decode the buffer,    *)
(* whether dicom_to_hu succeeds, what get_lung_mask answers and which      *)
(* variance calculate_slice_variance returns.  Slice indices are 0-based   *)
(* as in the program; TLA+ sequences are 1-based, so slice i is element    *)
(* i + 1 of a sequence.                                                    *)
(***************************************************************************)
EXTENDS Integers, Sequences, FiniteSets, TLC

\* ------------------------------------------------------------------ bounds
MaxN == 15        \* longest "long" series (one irregular slice at most)
MaxT == 9         \* largest small targetCount tried
MaxScore == 2     \* variance scores are drawn from 0..MaxScore
SmallN == 3       \* series up to this length take every outcome combination
LargeN == 211     \* length of the large series (every band above quota 41)
ScenarioN == 1000 \* length of the end-to-end scenario series
WideN == 455      \* length of the series whose bands exceed a quota of 90

\* --------------------------------------------------------- program constants
DefaultTargetCount == 200
SmallSeriesLimitStrict == 10 - 1

SmallSeriesLimit == 10
RegionCount == 5

VARIABLES
    stdin,              \* the JSON document main reads
    pc,                 \* position of the invocation
    target_count,       \* main's target_count, [kind, val]
    dicom_slices,       \* list built by the decoding loop
    hu_slices,          \* list built by the conversion loop
    lung_data,          \* list of <<index, variance>>
    quota_per_region,
    extra_slices,
    region_i,           \* next entry of the regions dict to iterate (1..5)
    region_quotas,      \* region name -> region_quota of its iteration
    region_stats,       \* region name -> number selected
    selected_indices,
    set_order,          \* iteration order of a Python set of ints
    result,             \* return value of select_representative_slices
    stdout,             \* JSON objects printed on standard output
    exit_code           \* -1 while running

vars == <<stdin, pc, target_count, dicom_slices, hu_slices, lung_data,
          quota_per_region, extra_slices, region_i, region_quotas,
          region_stats, selected_indices, set_order, result, stdout,
          exit_code>>

\* ------------------------------------------------------------ slice outcomes
\* undecodable: base64.b64decode / pydicom.dcmread raises
\* nopixels   : decoded, dicom_to_hu raises
\* maskerr    : converted, get_lung_mask raises
\* nolung     : get_lung_mask returns False
\* scoreerr   : get_lung_mask True, calculate_slice_variance catches an
\*              internal error and returns 0
\* lung       : get_lung_mask True, variance = score (0 when the narrow mask
\*              has fewer than 100 pixels)
FailKinds == {"undecodable", "nopixels", "maskerr", "nolung", "scoreerr"}

Outcome(k, s) == [kind |-> k, score |-> s]

None == Outcome("None", 0)

Outcomes ==
    {Outcome(k, 0) : k \in FailKinds} \cup {Outcome("lung", s) : s \in 0..MaxScore}

\* ------------------------------------------------------------------ helpers
Range(s) == {s[k] : k \in 1..Len(s)}

Min(a, b) == IF a <= b THEN a ELSE b

Max(a, b) == IF a >= b THEN a ELSE b

\* range(n) as a list
PyRange(n) == [k \in 1..n |-> k - 1]

PySliceInclusive(lst, a, b) == SubSeq(lst, Min(a, Len(lst)) + 1, Min(b + 1, Len(lst)))

\* lst[a:b] for 0 <= a, 0 <= b (Python clamps both ends to len(lst))
PySlice(lst, a, b) == SubSeq(lst, Min(a, Len(lst)) + 1, Min(b, Len(lst)))

\* sorted(S) for a set of integers
SetMin(S) == CHOOSE x \in S : \A y \in S : x <= y

SetMax(S) == CHOOSE x \in S : \A y \in S : y <= x

\* the elements of S, all within lo..hi, in ascending order (bisection on
\* the value range keeps the recursion shallow)
RECURSIVE SortedBetween(_, _, _)
SortedBetween(S, lo, hi) ==
    IF S = {} THEN <<>>
    ELSE IF lo = hi THEN <<lo>>
    ELSE LET mid == (lo + hi) \div 2
         IN  SortedBetween({x \in S : x <= mid}, lo, mid)
                \o SortedBetween({x \in S : x > mid}, mid + 1, hi)

Sorted(S) == IF S = {} THEN <<>> ELSE SortedBetween(S, SetMin(S), SetMax(S))

\* the same list with every element evaluated once
Listed(s) == SubSeq(s, 1, Len(s))

Reverse(s) == [k \in 1..Len(s) |-> s[Len(s) + 1 - k]]

\* list(set(lst)): the elements once each, in the set's iteration order
ListOfSet(S, order) == IF order = "asc" THEN Sorted(S) ELSE Reverse(Sorted(S))

\* int(n * frac) for frac = tenths / 10 in {0.0, 0.2, 0.4, 0.6, 0.8, 1.0}:
\* the double product truncates to the exact quotient for every n < 5000
IntFrac(n, tenths) == (n * tenths) \div 10

\* int(region_quota * 0.7): the double product falls just below the exact
\* value for quota 90, 170 and 180 (and for no other quota below 330)
HighVarCount(quota) ==
    IF quota \in {90, 170, 180} THEN (7 * quota) \div 10 - 1
    ELSE (7 * quota) \div 10

\* the regions dict, in insertion (= iteration) order; fractions in tenths
regions == <<
    [name |-> "APEX",    start_frac |-> 0, end_frac |-> 2],
    [name |-> "UPPER",   start_frac |-> 2, end_frac |-> 4],
    [name |-> "CENTRAL", start_frac |-> 4, end_frac |-> 6],
    [name |-> "LOWER",   start_frac |-> 6, end_frac |-> 8],
    [name |-> "BASE",    start_frac |-> 8, end_frac |-> 10] >>

RegionNames == {regions[r].name : r \in 1..RegionCount}

ExtraRegionsCentralLower == {"CENTRAL", "LOWER"}

\* the regions that take a remainder slice: ['CENTRAL', 'LOWER', 'APEX']
ExtraRegions == {"CENTRAL", "LOWER", "APEX"}

\* ------------------------------------------------------------------- inputs
\* score pattern of a regular series: slice i scores (a * i + b) mod (MaxScore + 1)
PatternScore(a, b, i) == (a * i + b) % (MaxScore + 1)

\* a series of n lung slices with pattern (a, b), slice p (if p < n) replaced
\* by the irregular outcome o
PatternSeries(n, a, b, p, o) ==
    [k \in 1..n |-> IF k - 1 = p THEN o
                    ELSE Outcome("lung", PatternScore(a, b, k - 1))]

RECURSIVE SeqsUpTo(_, _)
SeqsUpTo(S, n) ==
    IF n = 0 THEN {<<>>}
    ELSE LET shorter == SeqsUpTo(S, n - 1)
         IN  shorter \cup {Append(s, x) : s \in {t \in shorter : Len(t) = n - 1}, x \in S}

\* short series: every failure kind, and lung slices of the lowest and the
\* highest score
SmallOutcomes ==
    {Outcome(k, 0) : k \in FailKinds} \cup {Outcome("lung", s) : s \in {0, MaxScore}}

SmallSeries == SeqsUpTo(SmallOutcomes, SmallN)

LongSeries ==
    {PatternSeries(n, a, 0, p, o) :
        n \in 8..MaxN, a \in 0..MaxScore, p \in 0..MaxN, o \in SmallOutcomes}

LargeSeries ==
    {PatternSeries(n, a, b, n, None) :
        n \in {LargeN - 6, LargeN}, a \in 0..MaxScore, b \in 0..1}

ScenarioSeries ==
    {PatternSeries(ScenarioN, a, 0, ScenarioN, None) : a \in 0..MaxScore}

WideSeries ==
    {PatternSeries(WideN, a, 0, WideN, None) : a \in 0..MaxScore}

\* targetCount of the envelope: absent, a non-negative integer, or a string
LargeTargets ==
    {[kind |-> "absent", val |-> 0]}
    \cup {[kind |-> "int", val |-> t] : t \in {MaxT, DefaultTargetCount, 202}}

Targets ==
    LargeTargets \cup {[kind |-> "str", val |-> 0]}
    \cup {[kind |-> "int", val |-> t] : t \in 0..MaxT}

Envelope(e, bufs, t) == [envelope |-> e, dicomBuffers |-> bufs, targetCount |-> t]

Inputs ==
    {Envelope("malformed", <<>>, [kind |-> "absent", val |-> 0])}
    \cup {Envelope("object", bufs, t) :
            bufs \in SmallSeries \cup LongSeries, t \in Targets}
    \cup {Envelope("object", bufs, t) : bufs \in LargeSeries, t \in LargeTargets}
    \cup {Envelope("object", bufs, [kind |-> "absent", val |-> 0]) :
            bufs \in ScenarioSeries}
    \cup {Envelope("object", bufs, [kind |-> "int", val |-> 5 * 90]) :
            bufs \in WideSeries}

EmptyMap == [x \in {} |-> 0]

Init ==
    /\ stdin \in Inputs
    /\ pc = "start"
    /\ target_count = [kind |-> "int", val |-> 0]
    /\ dicom_slices = <<>>
    /\ hu_slices = <<>>
    /\ lung_data = <<>>
    /\ quota_per_region = 0
    /\ extra_slices = 0
    /\ region_i = 1
    /\ region_quotas = EmptyMap
    /\ region_stats = EmptyMap
    /\ selected_indices = <<>>
    /\ set_order = "asc"
    /\ result = <<>>
    /\ stdout = <<>>
    /\ exit_code = -1

\* ------------------------------------------------------------ output objects
\* json.dumps({"error": ..., "success": False})
FailureObject ==
    [keys |-> {"error", "success"}, success |-> FALSE,
     selectedIndices |-> <<>>, totalSlices |-> 0, selectedCount |-> 0]

\* json.dumps({"error": "No DICOM buffers provided"})
NoBuffersObject ==
    [keys |-> {"error"}, success |-> FALSE,
     selectedIndices |-> <<>>, totalSlices |-> 0, selectedCount |-> 0]

SuccessObject(selected, buffers) ==
    [keys |-> {"success", "selectedIndices", "totalSlices", "selectedCount"},
     success |-> TRUE, selectedIndices |-> selected,
     totalSlices |-> Len(buffers), selectedCount |-> Len(selected)]

\* ---------------------------------------------------------------- per slice
\* outcome of the decoding loop for one buffer
DecodeBuffer(buffer) == IF buffer.kind = "undecodable" THEN None ELSE buffer

QualifiesUnguarded(dcm) == dcm # None /\ dcm.kind \in {"lung", "scoreerr", "maskerr"}

\* does the conversion loop append (i, variance) for this decoded slice
Qualifies(dcm) == dcm # None /\ dcm.kind \in {"lung", "scoreerr"}

\* calculate_slice_variance
calculate_slice_variance(dcm) == IF dcm.kind = "scoreerr" THEN 0 ELSE dcm.score

\* the entries the conversion loop appends to hu_slices for one slice
HuEntries(dcm) ==
    IF dcm = None THEN <<"None">>
    ELSE IF dcm.kind = "nopixels" THEN <<"None">>
    ELSE IF dcm.kind = "maskerr" THEN <<"hu", "None">>
    ELSE <<"hu">>

\* concatenation of the lists ss[a], ..., ss[b]
RECURSIVE FlattenRange(_, _, _)
FlattenRange(ss, a, b) ==
    IF a > b THEN <<>>
    ELSE IF a = b THEN ss[a]
    ELSE LET mid == (a + b) \div 2
         IN  FlattenRange(ss, a, mid) \o FlattenRange(ss, mid + 1, b)

Flatten(ss) == FlattenRange(ss, 1, Len(ss))

\* lung_data as the conversion loop leaves it
LungData(slices) ==
    LET IsLung(i) == Qualifies(slices[i + 1])
        idxs == SelectSeq(PyRange(Len(slices)), IsLung)
    IN  [k \in 1..Len(idxs) |->
            <<idxs[k], calculate_slice_variance(slices[idxs[k] + 1])>>]

\* [idx for idx, _ in lung_data]
LungIndices(data) == Listed([k \in 1..Len(data) |-> data[k][1]])

\* {idx: var for idx, var in lung_data}.get(idx, 0)
VarianceOf(data, idx) ==
    IF \E k \in 1..Len(data) : data[k][1] = idx
    THEN data[CHOOSE k \in 1..Len(data) : data[k][1] = idx][2]
    ELSE 0

\* [i for i in range(len(dicom_slices)) if dicom_slices[i] is not None]
ValidIndices(slices) ==
    LET IsValid(i) == slices[i + 1] # None
    IN  SelectSeq(PyRange(Len(slices)), IsValid)

\* ------------------------------------------------------------------ actions
\* json.loads raises, or the document is not an object: except Exception
MainMalformedInput ==
    /\ pc = "start"
    /\ stdin.envelope = "malformed"
    /\ stdout' = Append(stdout, FailureObject)
    /\ exit_code' = 1
    /\ pc' = "exited"
    /\ UNCHANGED <<stdin, target_count, dicom_slices, hu_slices, lung_data,
                   quota_per_region, extra_slices, region_i, region_quotas,
                   region_stats, selected_indices, set_order, result>>

\* if not dicom_buffers: print error, sys.exit(1) (SystemExit is not an
\* Exception, so the handler of main does not run)
MainNoBuffers ==
    /\ pc = "start"
    /\ stdin.envelope = "object"
    /\ stdin.dicomBuffers = <<>>
    /\ stdout' = Append(stdout, NoBuffersObject)
    /\ exit_code' = 1
    /\ pc' = "exited"
    /\ UNCHANGED <<stdin, target_count, dicom_slices, hu_slices, lung_data,
                   quota_per_region, extra_slices, region_i, region_quotas,
                   region_stats, selected_indices, set_order, result>>

\* main reads the envelope and calls select_representative_slices, whose
\* first loop decodes every buffer
ParseDicom ==
    /\ pc = "start"
    /\ stdin.envelope = "object"
    /\ stdin.dicomBuffers # <<>>
    /\ target_count' =
          IF stdin.targetCount.kind = "absent"
          THEN [kind |-> "int", val |-> DefaultTargetCount]
          ELSE stdin.targetCount
    /\ dicom_slices' = [k \in 1..Len(stdin.dicomBuffers) |->
                           DecodeBuffer(stdin.dicomBuffers[k])]
    /\ pc' = "convert"
    /\ UNCHANGED <<stdin, hu_slices, lung_data, quota_per_region, extra_slices,
                   region_i, region_quotas, region_stats, selected_indices,
                   set_order, result, stdout, exit_code>>

\* the second loop: dicom_to_hu, get_lung_mask, calculate_slice_variance
ConvertAndClassify ==
    /\ pc = "convert"
    /\ hu_slices' = Flatten(Listed([k \in 1..Len(dicom_slices) |->
                                         HuEntries(dicom_slices[k])]))
    /\ lung_data' = LungData(dicom_slices)
    /\ pc' = "branch"
    /\ UNCHANGED <<stdin, target_count, dicom_slices, quota_per_region,
                   extra_slices, region_i, region_quotas, region_stats,
                   selected_indices, set_order, result, stdout, exit_code>>

\* if not lung_data: return the first target_count valid indices
\* (slicing a list with a str bound raises TypeError)
Fallback ==
    /\ pc = "branch"
    /\ lung_data = <<>>
    /\ IF target_count.kind = "int"
       THEN /\ result' = PySlice(ValidIndices(dicom_slices), 0, target_count.val)
            /\ pc' = "returned"
       ELSE /\ result' = result
            /\ pc' = "raised"
    /\ UNCHANGED <<stdin, target_count, dicom_slices, hu_slices, lung_data,
                   quota_per_region, extra_slices, region_i, region_quotas,
                   region_stats, selected_indices, set_order, stdout, exit_code>>

\* if len(lung_indices) <= 10: return lung_indices
Passthrough ==
    /\ pc = "branch"
    /\ lung_data # <<>>
    /\ Len(lung_data) <= SmallSeriesLimit
    /\ result' = LungIndices(lung_data)
    /\ pc' = "returned"
    /\ UNCHANGED <<stdin, target_count, dicom_slices, hu_slices, lung_data,
                   quota_per_region, extra_slices, region_i, region_quotas,
                   region_stats, selected_indices, set_order, stdout, exit_code>>

\* quota_per_region = target_count // 5; extra_slices = target_count % 5
\* (str // int raises TypeError)
QuotaSetup ==
    /\ pc = "branch"
    /\ Len(lung_data) > SmallSeriesLimit
    /\ IF target_count.kind = "int"
       THEN /\ quota_per_region' = target_count.val \div RegionCount
            /\ extra_slices' = target_count.val % RegionCount
            /\ set_order' \in {"asc", "desc"}
            /\ pc' = "regions"
       ELSE /\ UNCHANGED <<quota_per_region, extra_slices, set_order>>
            /\ pc' = "raised"
    /\ selected_indices' = <<>>
    /\ region_stats' = EmptyMap
    /\ region_quotas' = EmptyMap
    /\ region_i' = 1
    /\ UNCHANGED <<stdin, target_count, dicom_slices, hu_slices, lung_data,
                   result, stdout, exit_code>>

\* ------------------------------------------------------- one region's sample
\* lung_indices[start_idx:end_idx] of region r
RegionSlices(lung_indices, r) ==
    LET total_lung_slices == Len(lung_indices)
        start_idx == IntFrac(total_lung_slices, regions[r].start_frac)
        end_idx == IntFrac(total_lung_slices, regions[r].end_frac)
    IN  PySlice(lung_indices, start_idx, end_idx)

\* does region name take one of the remaining extra slices
TakesExtra(name, extra) == extra > 0 /\ name \in ExtraRegions

RegionQuota(name, per_region, extra) ==
    IF TakesExtra(name, extra) THEN per_region + 1 ELSE per_region

\* indices of region_slices_with_var after sort(key=variance, reverse=True):
\* descending variance, equal variances keep their list order (stable sort)
SortedByVariance(region_slices, data) ==
    LET n == Len(region_slices)
        sc == Listed([p \in 1..n |-> VarianceOf(data, region_slices[p])])
        rk == Listed([p \in 1..n |->
                 Cardinality({q \in 1..n :
                     sc[q] > sc[p] \/ (sc[q] = sc[p] /\ q < p)})])
    IN  Listed([k \in 1..n |-> region_slices[CHOOSE p \in 1..n : rk[p] = k - 1]])

HighVarSlices(region_slices, data, region_quota) ==
    PySlice(SortedByVariance(region_slices, data), 0, HighVarCount(region_quota))

RemainingUnfiltered(region_slices, high_var_slices) == region_slices

\* [idx for idx in region_slices if idx not in high_var_slices]
Remaining(region_slices, high_var_slices) ==
    LET NotHigh(idx) == idx \notin Range(high_var_slices)
    IN  SelectSeq(region_slices, NotHigh)

UniformStepCeiling(remaining, uniform_count) ==
    Max(1, (Len(remaining) + uniform_count - 1) \div uniform_count)

\* step = max(1, len(remaining) // uniform_count)
UniformStep(remaining, uniform_count) == Max(1, Len(remaining) \div uniform_count)

HasUniformStrict(remaining, uniform_count) == remaining # <<>> /\ uniform_count > 1

\* if remaining and uniform_count > 0
HasUniform(remaining, uniform_count) == remaining # <<>> /\ uniform_count > 0

\* positions (0-based) the uniform sample reads from remaining
UniformPositions(remaining, uniform_count) ==
    IF HasUniform(remaining, uniform_count)
    THEN Listed([k \in 1..Min(uniform_count, Len(remaining)) |->
                    (k - 1) * UniformStep(remaining, uniform_count)])
    ELSE <<>>

\* would remaining[i * step] raise IndexError
UniformRaises(remaining, uniform_count) ==
    LET pos == UniformPositions(remaining, uniform_count)
    IN  \E k \in 1..Len(pos) : pos[k] >= Len(remaining)

UniformSlices(remaining, uniform_count) ==
    LET pos == UniformPositions(remaining, uniform_count)
    IN  Listed([k \in 1..Len(pos) |-> remaining[pos[k] + 1]])

\* selected_from_region of the hybrid branch, before list(set(...))
HybridSelection(region_slices, data, region_quota) ==
    LET high_var_slices == HighVarSlices(region_slices, data, region_quota)
        uniform_count == region_quota - HighVarCount(region_quota)
        remaining == Remaining(region_slices, high_var_slices)
    IN  high_var_slices \o UniformSlices(remaining, uniform_count)

HybridRaises(region_slices, data, region_quota) ==
    LET high_var_slices == HighVarSlices(region_slices, data, region_quota)
        uniform_count == region_quota - HighVarCount(region_quota)
    IN  UniformRaises(Remaining(region_slices, high_var_slices), uniform_count)

SelectedFromRegion(region_slices, data, region_quota, order) ==
    IF Len(region_slices) <= region_quota
    THEN region_slices
    ELSE ListOfSet(Range(HybridSelection(region_slices, data, region_quota)), order)

\* one iteration of "for region_name, (start_frac, end_frac) in regions.items()"
SelectRegion ==
    /\ pc = "regions"
    /\ region_i <= RegionCount
    /\ LET name == regions[region_i].name
           region_slices == RegionSlices(LungIndices(lung_data), region_i)
           region_quota == RegionQuota(name, quota_per_region, extra_slices)
       IN  IF region_slices = <<>>
           THEN /\ region_stats' = region_stats @@ (name :> 0)
                /\ region_i' = region_i + 1
                /\ UNCHANGED <<extra_slices, region_quotas, selected_indices, pc>>
           ELSE /\ extra_slices' =
                      IF TakesExtra(name, extra_slices)
                      THEN extra_slices - 1 ELSE extra_slices
                /\ region_quotas' = region_quotas @@ (name :> region_quota)
                /\ IF Len(region_slices) > region_quota
                      /\ HybridRaises(region_slices, lung_data, region_quota)
                   THEN /\ pc' = "raised"
                        /\ UNCHANGED <<region_stats, selected_indices, region_i>>
                   ELSE LET selected_from_region ==
                                SelectedFromRegion(region_slices, lung_data,
                                                   region_quota, set_order)
                        IN  /\ selected_indices' =
                                   selected_indices \o selected_from_region
                            /\ region_stats' =
                                   region_stats @@ (name :> Len(selected_from_region))
                            /\ region_i' = region_i + 1
                            /\ pc' = pc
    /\ UNCHANGED <<stdin, target_count, dicom_slices, hu_slices, lung_data,
                   quota_per_region, set_order, result, stdout, exit_code>>

SortSelectedUnsorted(selected) == selected

SortSelectedSetOnly(selected) == ListOfSet(Range(selected), set_order)

\* selected_indices = sorted(list(set(selected_indices))); return
SortSelected(selected) == Sorted(Range(selected))

Aggregate ==
    /\ pc = "regions"
    /\ region_i > RegionCount
    /\ selected_indices' = SortSelected(selected_indices)
    /\ result' = selected_indices'
    /\ pc' = "returned"
    /\ UNCHANGED <<stdin, target_count, dicom_slices, hu_slices, lung_data,
                   quota_per_region, extra_slices, region_i, region_quotas,
                   region_stats, set_order, stdout, exit_code>>

\* main prints the success object
MainSuccess ==
    /\ pc = "returned"
    /\ stdout' = Append(stdout, SuccessObject(result, stdin.dicomBuffers))
    /\ exit_code' = 0
    /\ pc' = "exited"
    /\ UNCHANGED <<stdin, target_count, dicom_slices, hu_slices, lung_data,
                   quota_per_region, extra_slices, region_i, region_quotas,
                   region_stats, selected_indices, set_order, result>>

\* except Exception as e: print failure object, sys.exit(1)
MainException ==
    /\ pc = "raised"
    /\ stdout' = Append(stdout, FailureObject)
    /\ exit_code' = 1
    /\ pc' = "exited"
    /\ UNCHANGED <<stdin, target_count, dicom_slices, hu_slices, lung_data,
                   quota_per_region, extra_slices, region_i, region_quotas,
                   region_stats, selected_indices, set_order, result>>

Next ==
    \/ MainMalformedInput
    \/ MainNoBuffers
    \/ ParseDicom
    \/ ConvertAndClassify
    \/ Fallback
    \/ Passthrough
    \/ QuotaSetup
    \/ SelectRegion
    \/ Aggregate
    \/ MainSuccess
    \/ MainException

Spec == Init /\ [][Next]_vars

\* ========================================================== properties
\* quantities of the invocation the properties speak about
TotalSlices == Len(stdin.dicomBuffers)

QualifyingCount == Len(lung_data)

StrictlyAscending(lst) == \A k \in 1..(Len(lst) - 1) : lst[k] < lst[k + 1]

IntegerTarget == target_count.kind = "int"

OnFallbackPath == pc = "returned" /\ QualifyingCount = 0

OnPassthroughPath == pc = "returned" /\ QualifyingCount \in 1..10

OnQuotaPath == pc = "returned" /\ QualifyingCount > 10

\* the band of region r, from the qualifying list
Band(r) == RegionSlices(LungIndices(lung_data), r)

\* C1: on each of the three return paths the returned list is strictly
\* ascending by original slice index (hence has no value twice).
C1_StrictlyAscending ==
    pc = "returned" => StrictlyAscending(result)

\* a quota-path return whose per-region lists were appended in descending order
C1_Witness ==
    /\ OnQuotaPath
    /\ set_order = "desc"
    /\ Len(result) >= RegionCount
    /\ \E name \in DOMAIN region_stats : region_stats[name] >= 2

\* C2: the result has at most max(targetCount, qualifying count) entries and
\* every returned index is an index of the input series.
C2_Bounds ==
    (pc = "returned" /\ IntegerTarget) =>
        /\ Len(result) <= Max(target_count.val, QualifyingCount)
        /\ \A k \in 1..Len(result) : 0 <= result[k] /\ result[k] < TotalSlices

\* a fallback return cut to a non-zero targetCount shorter than the valid list
C2_Witness ==
    /\ OnFallbackPath
    /\ target_count.val > 0
    /\ Len(result) = target_count.val
    /\ Len(ValidIndices(dicom_slices)) > target_count.val

\* C3: on the quota path the quotas of the five regions sum to targetCount.
C3_QuotaSum ==
    (pc = "regions" /\ region_i > RegionCount /\ DOMAIN region_quotas = RegionNames) =>
        region_quotas["APEX"] + region_quotas["UPPER"] + region_quotas["CENTRAL"]
            + region_quotas["LOWER"] + region_quotas["BASE"] = target_count.val

\* a slice is absent when its buffer could not be decoded or its pixel data
\* could not be calibrated
Absent(i) == stdin.dicomBuffers[i + 1].kind \in {"undecodable", "nopixels"}

NonAbsentIndices ==
    LET Present(i) == ~Absent(i)
    IN  SelectSeq(PyRange(TotalSlices), Present)

\* C4: with no qualifying slice the result is the first targetCount indices of
\* the slices that are not absent, and no absent slice is returned.
C4_FallbackFirstValid ==
    OnFallbackPath =>
        /\ result = SubSeq(NonAbsentIndices, 1,
                           Min(target_count.val, Len(NonAbsentIndices)))
        /\ \A k \in 1..Len(result) : ~Absent(result[k])

\* the indices of the input slices the lung classifier accepts
QualifyingInput ==
    LET Accepted(i) == stdin.dicomBuffers[i + 1].kind \in {"lung", "scoreerr"}
    IN  SelectSeq(PyRange(TotalSlices), Accepted)

\* C5: with 1..10 qualifying slices the result is exactly the qualifying
\* indices in original order, whatever targetCount and the scores are.
C5_Passthrough ==
    (pc = "returned" /\ Len(QualifyingInput) \in 1..10) => result = QualifyingInput

\* ten qualifying slices returned although targetCount asks for fewer
C5_Witness ==
    /\ pc = "returned"
    /\ Len(QualifyingInput) = 10
    /\ IntegerTarget
    /\ target_count.val < 10
    /\ Len(result) = 10

\* a top-level failure: malformed envelope, empty buffer list, or an error
\* that reached the handler of main
TopLevelFailure ==
    \/ stdin.envelope = "malformed"
    \/ stdin.dicomBuffers = <<>>
    \/ exit_code = 1

\* C6: every top-level failure prints exactly one object holding
\* "success": false and an "error", exits with 1, and prints no success object.
C6_FailureObject ==
    (pc = "exited" /\ TopLevelFailure) =>
        /\ exit_code = 1
        /\ Len(stdout) = 1
        /\ stdout[1].keys = {"success", "error"}
        /\ stdout[1].success = FALSE

\* the envelope carries an integer targetCount or none
WellFormedTarget == stdin.targetCount.kind \in {"absent", "int"}

DecodingDone == pc \notin {"start"}

ClassifyingDone == pc \notin {"start", "convert"}

KindOf(i) == stdin.dicomBuffers[i + 1].kind

\* what holds of an invocation for a given set of per-slice failure kinds
PerSliceFailuresContained(failure_kinds) ==
    /\ DecodingDone => Len(dicom_slices) = TotalSlices
    /\ ClassifyingDone =>
          LET qualifying == Range(LungIndices(lung_data))
              selected == Range(selected_indices) \cup Range(result)
          IN  \A i \in 0..(TotalSlices - 1) :
                 /\ KindOf(i) \in failure_kinds =>
                       /\ i \notin qualifying
                       /\ QualifyingCount > 10 => i \notin selected
                 /\ KindOf(i) = "lung" => i \in qualifying
    /\ (pc = "exited" /\ stdin.dicomBuffers # <<>> /\ WellFormedTarget) =>
          /\ exit_code = 0
          /\ Len(stdout) = 1
          /\ stdout[1].success = TRUE
          /\ "selectedIndices" \in stdout[1].keys
          /\ stdout[1].selectedCount = Len(stdout[1].selectedIndices)

\* C7 as stated: a slice that fails in decoding, calibration, classification
\* or scoring is never in the qualifying list, every other slice is still
\* processed, and a non-empty buffer list ends in a success object.
C7_PerSliceFailureAsStated ==
    PerSliceFailuresContained({"undecodable", "nopixels", "maskerr", "scoreerr"})

\* C7 (amended): the same for failures of decoding, calibration and
\* classification; a slice whose scoring fails stays in the qualifying list
\* with score 0.
C7_PerSliceFailure ==
    /\ PerSliceFailuresContained({"undecodable", "nopixels", "maskerr"})
    /\ ClassifyingDone =>
          LET entries == Range(lung_data)
          IN  \A i \in 0..(TotalSlices - 1) :
                 KindOf(i) = "scoreerr" => <<i, 0>> \in entries

\* a successful quota-path invocation over a series holding a failed slice
C7_Witness ==
    /\ pc = "exited"
    /\ exit_code = 0
    /\ QualifyingCount > 10
    /\ \E i \in 0..(TotalSlices - 1) : KindOf(i) \in {"undecodable", "nopixels", "maskerr"}
    /\ stdout[1].selectedCount > 0

\* C8: with more than 10 qualifying slices and targetCount >= 5 every region
\* has a non-empty band and at least one slice of its band is returned.
C8_ApexToBaseCoverage ==
    (OnQuotaPath /\ IntegerTarget /\ target_count.val >= 5) =>
        \A r \in 1..RegionCount :
            /\ Band(r) # <<>>
            /\ Range(Band(r)) \cap Range(result) # {}

\* targetCount = 5 over bands of three slices: each region gives one of three
C8_Witness ==
    /\ OnQuotaPath
    /\ IntegerTarget
    /\ target_count.val = 5
    /\ \A r \in 1..RegionCount : Len(Band(r)) = 3
    /\ Len(result) = 5

AllBandsAbove(quota) == \A r \in 1..RegionCount : Len(Band(r)) > quota

\* C9: targetCount = 200 with every band larger than its quota: each region
\* selects 40 and the result is 200 distinct ascending indices.
C9_Target200 ==
    (OnQuotaPath /\ IntegerTarget /\ target_count.val = 200 /\ AllBandsAbove(40)) =>
        /\ \A name \in RegionNames : region_stats[name] = 40
        /\ Len(result) = 200
        /\ StrictlyAscending(result)

\* such a return, over scores that are not all equal
C9_Witness ==
    /\ OnQuotaPath
    /\ IntegerTarget
    /\ target_count.val = 200
    /\ AllBandsAbove(40)
    /\ \E k \in 1..Len(lung_data) : lung_data[k][2] # lung_data[1][2]
    /\ Len(result) = 200

QuotasAre(apex, upper, central, lower, base) ==
    /\ DOMAIN region_quotas = RegionNames
    /\ region_quotas["APEX"] = apex
    /\ region_quotas["UPPER"] = upper
    /\ region_quotas["CENTRAL"] = central
    /\ region_quotas["LOWER"] = lower
    /\ region_quotas["BASE"] = base

ScoreOf(idx) == VarianceOf(lung_data, idx)

\* the high-variance part region r chooses under the quota of its iteration
HighPart(r) == HighVarSlices(Band(r), lung_data, region_quotas[regions[r].name])

\* region r has been given a quota that its band exceeds
Oversubscribed(r) ==
    /\ regions[r].name \in DOMAIN region_quotas
    /\ Len(Band(r)) > region_quotas[regions[r].name]

\* no slice of the high-variance part of region r scores below a slice of
\* the same band left out of it, and the part is returned
TopByScore(r) ==
    LET high == Range(HighPart(r))
        rest == Range(Band(r)) \ high
        high_scores == {ScoreOf(x) : x \in high}
        rest_scores == {ScoreOf(y) : y \in rest}
    IN  /\ \A sx \in high_scores : \A sy \in rest_scores : sx >= sy
        /\ high \subseteq Range(result)

\* C11: in every region whose band exceeds its quota the high-variance part
\* holds k = floor(quota * 0.7) = floor(7 * quota / 10) slices and is a top-k
\* set by score (so a slice scoring 0 is never in it while a positive-score
\* slice of the band is left out).
C11_TopKAsStated ==
    OnQuotaPath =>
        \A r \in 1..RegionCount :
            Oversubscribed(r) =>
                /\ Len(HighPart(r)) = (7 * region_quotas[regions[r].name]) \div 10
                /\ TopByScore(r)

\* C11, ordering only: whatever its size, the high-variance part is a top set
\* by score of its band.
C11_TopOrdering ==
    OnQuotaPath => \A r \in 1..RegionCount : Oversubscribed(r) => TopByScore(r)

\* what the quota path returns when every set is iterated in ascending order
ReferenceSelection ==
    Sorted(UNION {Range(SelectedFromRegion(Band(r), lung_data,
                                           region_quotas[regions[r].name], "asc")) :
                    r \in 1..RegionCount})

\* C12: the returned list is determined by the input alone: a run under any
\* set iteration order returns what the run under the ascending order
\* returns, also when candidates of a region share a score.
C12_Determinism ==
    OnQuotaPath => result = ReferenceSelection

\* a run under the descending set order over a band whose candidates all
\* share one score and that is cut by the hybrid split
C12_Witness ==
    /\ OnQuotaPath
    /\ set_order = "desc"
    /\ \E r \in 1..RegionCount :
          /\ Oversubscribed(r)
          /\ Len(HighPart(r)) >= 1
          /\ region_stats[regions[r].name] >= 2
          /\ \A x \in Range(Band(r)) : ScoreOf(x) = ScoreOf(Band(r)[1])

\* regions whose loop iteration has assigned a quota
Quotaed == {r \in 1..RegionCount : regions[r].name \in DOMAIN region_quotas}

\* the region of the latest loop iteration (every region is the latest in
\* the state its iteration leads to)
LastQuotaed == {r \in Quotaed : \A q \in Quotaed : q <= r}

\* regions whose loop iteration has completed
Sampled == {r \in 1..RegionCount : regions[r].name \in DOMAIN region_stats}

QuotaOf(r) == region_quotas[regions[r].name]

\* the hybrid split of region r: the stride positions fall inside the
\* remaining list and are pairwise distinct, the uniform sample is disjoint
\* from the high-variance part, and the union has quota-many slices
HybridSplitExact(r) ==
    LET high == HighPart(r)
        low == QuotaOf(r) - HighVarCount(QuotaOf(r))
        remaining == Remaining(Band(r), high)
        pos == UniformPositions(remaining, low)
    IN  /\ \A k \in 1..Len(pos) : 0 <= pos[k] /\ pos[k] < Len(remaining)
        /\ \A j, k \in 1..Len(pos) : j # k => pos[j] # pos[k]
        /\ Len(pos) = low
        /\ Range(UniformSlices(remaining, low)) \cap Range(high) = {}
        /\ Cardinality(Range(high) \cup Range(UniformSlices(remaining, low)))
              = QuotaOf(r)

\* C13: on the quota path every region contributes exactly
\* min(quota, candidate count) distinct slices of its own band; where the band
\* exceeds the quota the stride positions are inside the remaining list and
\* distinct and the uniform sample is disjoint from the high-variance part, so
\* the region contributes its quota; the result never exceeds targetCount.
C13_RegionContribution ==
    (QualifyingCount > 10 /\ IntegerTarget /\ pc \in {"regions", "raised", "returned"}) =>
        /\ pc # "returned" =>
              \A r \in LastQuotaed : Len(Band(r)) > QuotaOf(r) => HybridSplitExact(r)
        /\ LET lung_indices == LungIndices(lung_data)
                selected == Range(selected_indices)
            IN  /\ \A r \in Sampled :
                      LET band == RegionSlices(lung_indices, r)
                          due == Min(QuotaOf(r), Len(band))
                      IN  /\ region_stats[regions[r].name] = due
                          /\ Cardinality(selected \cap Range(band)) = due
                /\ selected \subseteq
                      UNION {Range(RegionSlices(lung_indices, r)) : r \in Sampled}
        /\ pc = "returned" => Len(result) <= target_count.val

\* a return where some band is cut by a split with several stride samples
\* and another band is taken whole
C13_Witness ==
    /\ OnQuotaPath
    /\ IntegerTarget
    /\ \E r \in 1..RegionCount :
          /\ Oversubscribed(r)
          /\ QuotaOf(r) - HighVarCount(QuotaOf(r)) >= 2
          /\ HighVarCount(QuotaOf(r)) >= 1
    /\ \E r \in 1..RegionCount :
          /\ ~Oversubscribed(r)
          /\ region_stats[regions[r].name] = Len(Band(r))

====
